---- MODULE Spec2Model ----
(***************************************************************************)
(* select-random-fastx: main() of src/main.rs as a state machine.          *)
(*                                                                         *)
(* The run is sequential: file metadata, counting pass, output creation,   *)
(* draw planning, then per file index selection and copy_entries.  pc is   *)
(* the position in main (or in copy_entries while it is called).           *)
(*                                                                         *)
(* A file is [len, fmt]: its number of records and its sequence format.    *)
(* Record number i (from 0) of input number f (from 1) is <<f, i>>.        *)
(* Option values are sequences: <<>> is None and <<v>> is Some(v).         *)
(***************************************************************************)
EXTENDS Integers, Sequences, FiniteSets, TLC

\* ------------------------------------------------------------- bounds
\* Width of the machine counters (u64, and usize on a 64-bit target), scaled.
CounterBits == 4
\* Most inputs of one run, most records of one input, largest --amount.
MaxFiles == 2
MaxRecords == 3
MaxAmount == 3
\* Most inputs of a run of the counting pass alone.
MaxCatalogueFiles == 3
\* Largest --amount of the runs over at most one record in all.
LongAmount == 11

CounterMax == 2 ^ CounterBits - 1

\* ------------------------------------------------------------ helpers
None == <<>>
Some(v) == <<v>>
IsSome(o) == Len(o) = 1
Unwrap(o) == o[1]

\* u64::checked_add / usize::checked_add
CheckedAdd(a, b) == IF a + b > CounterMax THEN None ELSE Some(a + b)

\* a += b and a -= b on u64: with overflow checks (debug profile) the operation
\* panics, without them (release profile) it wraps.  <<>> stands for the panic.
AddAssignOutcomes(a, b) ==
    IF a + b > CounterMax THEN {None, Some((a + b) % (CounterMax + 1))}
    ELSE {Some(a + b)}

SubAssignOutcomes(a, b) ==
    IF a - b < 0 THEN {None, Some((a - b) % (CounterMax + 1))}
    ELSE {Some(a - b)}

RECURSIVE SumSeq(_)
SumSeq(s) == IF s = <<>> THEN 0 ELSE s[1] + SumSeq(Tail(s))

\* format!("{}", n): the decimal digits of n, most significant first.
RECURSIVE Decimal(_)
Decimal(n) == IF n < 10 THEN <<n>> ELSE Append(Decimal(n \div 10), n % 10)

\* Vec::sort_unstable on integers (insertion into a sorted prefix).
RECURSIVE Insert(_, _)
Insert(x, s) ==
    IF s = <<>> THEN <<x>>
    ELSE IF x <= s[1] THEN <<x>> \o s
    ELSE <<s[1]>> \o Insert(x, Tail(s))

RECURSIVE SortUnstable(_)
SortUnstable(s) == IF s = <<>> THEN <<>> ELSE Insert(s[1], SortUnstable(Tail(s)))

\* Vec::resize(new_len, value): truncates, or pads with value.
Resize(s, n, v) == [k \in 1..n |-> IF k <= Len(s) THEN s[k] ELSE v]

\* (0..n).collect()
Range(n) == [k \in 1..n |-> k - 1]

\* SliceRandom::shuffle: every permutation of s is a possible outcome.
Shuffles(s) == {[k \in 1..Len(s) |-> s[p[k]]] : p \in Permutations(1..Len(s))}

\* Uniform::new(0, n).sample_iter(rng).take(k).collect(): k values of 0..n-1.
UniformSamples(n, k) == [1..k -> 0..(n - 1)]

\* ----------------------------------------------------- WeightedIndex
\* WeightedIndex::new: Err for no weights (NoItem) or a zero sum (AllWeightsZero).
WeightedIndexNew(weights) ==
    IF Len(weights) = 0 \/ SumSeq(weights) = 0 THEN None ELSE Some(weights)

\* Mutant of Sample: an index is drawn whatever its weight.
SampleAnyIndex(weights) == DOMAIN weights

\* WeightedIndex::sample: an index of positive weight.
Sample(weights) == {i \in DOMAIN weights : weights[i] > 0}

\* WeightedIndex::update_weights(&[(i, &w)]): Err (AllWeightsZero), self
\* unchanged, if the new total is zero.
UpdateWeights(weights, i, w) ==
    IF SumSeq(weights) - weights[i] + w <= 0 THEN None
    ELSE Some([weights EXCEPT ![i] = w])

\* ---------------------------------------------------------- the files
FileLen(f) == f.len
\* Reader::format(): None for an input without records.
ReaderFormat(f) == IF f.len = 0 THEN None ELSE Some(f.fmt)
\* Reader::next() after pos records were read.
ReaderNext(f, i, pos) == IF pos < FileLen(f) THEN Some(<<i, pos>>) ELSE None
\* Record::opt_qual_lines(): Some for a fastq record.
HasQual(f) == f.fmt = "fastq"

VARIABLES
    cli,                        \* [input, amount (Option), allow_repetitions]
    pc, err,
    path_i,                     \* position of the running loop over cli.input
    file_size_sum,
    entry_count, fastx_reader,  \* records read from the open reader
    entry_count_per_file, entry_count_sum, format,
    output,                     \* Option of OutputWriter [writer, next_index]
    amount_per_file, remaining_entries_per_file, distribution,
    draws,                      \* iterations done of "for _ in 0..amount"
    indices, iter_k,            \* index_iterator and the items taken from it
    next_index, current_index, current_record,
    opens                       \* File::open calls per input

vars == <<cli, pc, err, path_i, file_size_sum, entry_count, fastx_reader,
          entry_count_per_file, entry_count_sum, format, output,
          amount_per_file, remaining_entries_per_file, distribution, draws,
          indices, iter_k, next_index, current_index, current_record, opens>>

catalogueVars == <<entry_count, fastx_reader, entry_count_per_file,
                   entry_count_sum, format>>
planVars == <<amount_per_file, remaining_entries_per_file, distribution, draws>>
copyVars == <<indices, iter_k, next_index, current_index, current_record>>

NumInputs == Len(cli.input)
Concatenate == cli.amount = None
Amount == Unwrap(cli.amount)

\* ------------------------------------------------------------ inputs
Formats == {"fasta", "fastq"}
FilesOf(lens) ==
    {[len |-> n, fmt |-> IF n = 0 THEN "none" ELSE f] : n \in lens, f \in Formats}
InputLists(lens, most) == UNION {[1..k -> FilesOf(lens)] : k \in 0..most}
TotalRecords(input) == SumSeq([k \in 1..Len(input) |-> input[k].len])

Amounts(input) ==
    IF TotalRecords(input) <= 1 THEN 0..LongAmount ELSE 0..MaxAmount

Clis ==
    {[input |-> inp, amount |-> a, allow_repetitions |-> r] :
        inp \in InputLists(0..MaxRecords, MaxFiles),
        a \in {None} \cup {Some(n) : n \in (0..LongAmount) \cup (0..MaxAmount)},
        r \in BOOLEAN}

Start(c) ==
    /\ cli = c
    /\ pc = "metadata"
    /\ err = "none"
    /\ path_i = 1
    /\ file_size_sum = 0
    /\ entry_count = 0
    /\ fastx_reader = 0
    /\ entry_count_per_file = <<>>
    /\ entry_count_sum = 0
    /\ format = None
    /\ output = None
    /\ amount_per_file = <<>>
    /\ remaining_entries_per_file = <<>>
    /\ distribution = None
    /\ draws = 0
    /\ indices = <<>>
    /\ iter_k = 0
    /\ next_index = 0
    /\ current_index = 0
    /\ current_record = None
    /\ opens = [k \in 1..Len(c.input) |-> 0]

Init ==
    \E c \in Clis :
        /\ c.amount # None => Unwrap(c.amount) \in Amounts(c.input)
        /\ Start(c)

\* Inputs at the counters' capacity, for the counting pass alone.
CatalogueLens == {0, 1, CounterMax - 1, CounterMax, CounterMax + 1}
InitCatalogue ==
    \E inp \in InputLists(CatalogueLens, MaxCatalogueFiles) :
        Start([input |-> inp, amount |-> None, allow_repetitions |-> FALSE])

Fail(e) == pc' = "failed" /\ err' = e

\* ------------------------------------------------ main, lines 133-146
\* fs::metadata(path).len(): the length the system reports for the path.  It
\* does not bound the records read later (a pipe or a device reports 0).
MetadataLens == {0, CounterMax}

ReadMetadata ==
    /\ pc = "metadata"
    /\ path_i <= NumInputs
    /\ \E len \in MetadataLens :
        LET sum == CheckedAdd(file_size_sum, len) IN
        IF IsSome(sum)
        THEN /\ file_size_sum' = Unwrap(sum)
             /\ path_i' = path_i + 1
             /\ UNCHANGED <<pc, err>>
        ELSE /\ Fail("Overflow")
             /\ UNCHANGED <<file_size_sum, path_i>>
    /\ UNCHANGED <<cli, catalogueVars, output, planVars, copyVars, opens>>

MetadataDone ==
    /\ pc = "metadata"
    /\ path_i > NumInputs
    /\ pc' = "count"
    /\ path_i' = 1
    /\ UNCHANGED <<cli, err, file_size_sum, catalogueVars, output, planVars,
                   copyVars, opens>>

\* ------------------------------------------------ main, lines 154-179
CountOpen ==
    /\ pc = "count"
    /\ path_i <= NumInputs
    /\ entry_count' = 0
    /\ fastx_reader' = 0
    /\ opens' = [opens EXCEPT ![path_i] = @ + 1]
    /\ pc' = "count_read"
    /\ UNCHANGED <<cli, err, path_i, file_size_sum, entry_count_per_file,
                   entry_count_sum, format, output, planVars, copyVars>>

\* One iteration of "while let Some(record) = fastx_reader.next()".
CountRecord ==
    /\ pc = "count_read"
    /\ IsSome(ReaderNext(cli.input[path_i], path_i, fastx_reader))
    /\ fastx_reader' = fastx_reader + 1
    /\ LET sum == CheckedAdd(entry_count, 1) IN
        IF IsSome(sum)
        THEN entry_count' = Unwrap(sum) /\ UNCHANGED <<pc, err>>
        ELSE Fail("Overflow") /\ UNCHANGED entry_count
    /\ UNCHANGED <<cli, path_i, file_size_sum, entry_count_per_file,
                   entry_count_sum, format, output, planVars, copyVars, opens>>

\* Mutant of FormatAfter: the expected format follows the file just read.
FormatAfterOverwrite(fmt, reader_format) ==
    IF IsSome(fmt) /\ IsSome(reader_format) /\ Unwrap(reader_format) # Unwrap(fmt)
    THEN None
    ELSE Some(reader_format)

\* The expected format after a file that reports reader_format: <<>> when the
\* file's format differs from the expected one (lines 169-177).
FormatAfter(fmt, reader_format) ==
    IF IsSome(fmt)
    THEN IF IsSome(reader_format) /\ Unwrap(reader_format) # Unwrap(fmt)
         THEN None
         ELSE Some(fmt)
    ELSE Some(reader_format)

\* entry_count_sum += entry_count (line 167)
AddToEntryCountSum(sum, count) == AddAssignOutcomes(sum, count)

\* The reader is exhausted: lines 166-178.
CountEnd ==
    /\ pc = "count_read"
    /\ ~IsSome(ReaderNext(cli.input[path_i], path_i, fastx_reader))
    /\ entry_count_per_file' = Append(entry_count_per_file, entry_count)
    /\ \E sum \in AddToEntryCountSum(entry_count_sum, entry_count) :
        IF ~IsSome(sum)
        THEN /\ Fail("PanicArithmeticOverflow")
             /\ UNCHANGED <<entry_count_sum, format, path_i>>
        ELSE /\ entry_count_sum' = Unwrap(sum)
             /\ LET after == FormatAfter(format, ReaderFormat(cli.input[path_i])) IN
                 IF IsSome(after)
                 THEN /\ format' = Unwrap(after)
                      /\ path_i' = path_i + 1
                      /\ pc' = "count"
                      /\ UNCHANGED err
                 ELSE /\ Fail("FormatMismatch")
                      /\ UNCHANGED <<format, path_i>>
    /\ entry_count' = 0
    /\ fastx_reader' = 0
    /\ UNCHANGED <<cli, file_size_sum, output, planVars, copyVars, opens>>

CountDone ==
    /\ pc = "count"
    /\ path_i > NumInputs
    /\ pc' = "create_output"
    /\ path_i' = 1
    /\ UNCHANGED <<cli, err, file_size_sum, catalogueVars, output, planVars,
                   copyVars, opens>>

NextCatalogue ==
    \/ ReadMetadata
    \/ MetadataDone
    \/ CountOpen
    \/ CountRecord
    \/ CountEnd
    \/ CountDone

SpecCatalogue == InitCatalogue /\ [][NextCatalogue]_vars

\* ------------------------------------------------ main, lines 181-192
CreateOutput ==
    /\ pc = "create_output"
    /\ output' = Some([writer |-> <<>>, next_index |-> 0])
    /\ pc' = IF Concatenate THEN "extract" ELSE "plan_init"
    /\ UNCHANGED <<cli, err, path_i, file_size_sum, catalogueVars, planVars,
                   copyVars, opens>>

\* ------------------------------- main, lines 197-198 and lines 242-244
PlanInit ==
    /\ pc = "plan_init"
    /\ amount_per_file' = [k \in 1..Len(entry_count_per_file) |-> 0]
    /\ remaining_entries_per_file' =
           IF cli.allow_repetitions THEN <<>> ELSE entry_count_per_file
    /\ draws' = 0
    /\ LET new == WeightedIndexNew(entry_count_per_file) IN
        IF IsSome(new)
        THEN distribution' = new /\ pc' = "plan" /\ UNCHANGED err
        ELSE Fail("PanicWeightedIndexNew") /\ UNCHANGED distribution
    /\ UNCHANGED <<cli, path_i, file_size_sum, catalogueVars, output, copyVars,
                   opens>>

\* One iteration of "for _ in 0..amount" with repetitions, lines 199-208.
DrawWithRepetition ==
    /\ pc = "plan"
    /\ cli.allow_repetitions
    /\ draws < Amount
    /\ \E file_index \in Sample(Unwrap(distribution)) :
        LET sum == CheckedAdd(amount_per_file[file_index], 1) IN
        IF IsSome(sum)
        THEN /\ amount_per_file' = [amount_per_file EXCEPT ![file_index] = Unwrap(sum)]
             /\ draws' = draws + 1
             /\ UNCHANGED <<pc, err>>
        ELSE /\ Fail("Overflow")
             /\ UNCHANGED <<amount_per_file, draws>>
    /\ UNCHANGED <<cli, path_i, file_size_sum, catalogueVars, output,
                   remaining_entries_per_file, distribution, copyVars, opens>>

\* remaining_entries_per_file[file_index] -= 1 (line 256)
DecrementRemaining(remaining) == SubAssignOutcomes(remaining, 1)

\* distribution.update_weights(&[(file_index, &remaining)]) (lines 257-259)
UpdateDistribution(weights, file_index, remaining) ==
    UpdateWeights(weights, file_index, remaining)

\* One iteration of "for _ in 0..amount" without repetitions, lines 245-262.
DrawWithoutRepetition ==
    /\ pc = "plan"
    /\ ~cli.allow_repetitions
    /\ draws < Amount
    /\ \E file_index \in Sample(Unwrap(distribution)) :
        LET sum == CheckedAdd(amount_per_file[file_index], 1) IN
        IF ~IsSome(sum)
        THEN /\ Fail("Overflow")
             /\ UNCHANGED <<amount_per_file, remaining_entries_per_file,
                            distribution, draws>>
        ELSE
        /\ amount_per_file' = [amount_per_file EXCEPT ![file_index] = Unwrap(sum)]
        /\ \E left \in DecrementRemaining(remaining_entries_per_file[file_index]) :
            IF ~IsSome(left)
            THEN /\ Fail("PanicArithmeticOverflow")
                 /\ UNCHANGED <<remaining_entries_per_file, distribution, draws>>
            ELSE
            /\ remaining_entries_per_file' =
                   [remaining_entries_per_file EXCEPT ![file_index] = Unwrap(left)]
            /\ LET updated == UpdateDistribution(Unwrap(distribution), file_index,
                                                 Unwrap(left)) IN
                IF IsSome(updated)
                THEN /\ distribution' = updated
                     /\ draws' = draws + 1
                     /\ UNCHANGED <<pc, err>>
                ELSE /\ Fail("WeightUpdateError")
                     /\ UNCHANGED <<distribution, draws>>
    /\ UNCHANGED <<cli, path_i, file_size_sum, catalogueVars, output, copyVars,
                   opens>>

\* Mutant of PlanDone: the planning loop is left after its first draw.
PlanDoneEarly ==
    /\ pc = "plan"
    /\ draws = (IF Amount = 0 THEN 0 ELSE 1)
    /\ pc' = "extract"
    /\ path_i' = 1
    /\ UNCHANGED <<cli, err, file_size_sum, catalogueVars, output, planVars,
                   copyVars, opens>>

\* The planning loop has run amount times (lines 209 and 263).
PlanDone ==
    /\ pc = "plan"
    /\ draws = Amount
    /\ pc' = "extract"
    /\ path_i' = 1
    /\ UNCHANGED <<cli, err, file_size_sum, catalogueVars, output, planVars,
                   copyVars, opens>>

\* ------------------- main, lines 215-235, lines 269-287, lines 295-301
\* What the running extraction loop takes from input number i.
PlannedFor(i) ==
    IF Concatenate THEN entry_count_per_file[i] ELSE amount_per_file[i]

\* Mutant of ExtractSkip: no "continue", copy_entries is called with no index.
ExtractNoSkip ==
    /\ pc = "extract"
    /\ path_i <= NumInputs
    /\ PlannedFor(path_i) = 0
    /\ pc' = "copy_entries"
    /\ UNCHANGED <<cli, err, path_i, file_size_sum, catalogueVars, output,
                   planVars, copyVars, opens>>

\* "continue": nothing is taken from this input.
ExtractSkip ==
    /\ pc = "extract"
    /\ path_i <= NumInputs
    /\ PlannedFor(path_i) = 0
    /\ path_i' = path_i + 1
    /\ UNCHANGED <<cli, pc, err, file_size_sum, catalogueVars, output, planVars,
                   copyVars, opens>>

\* lines 228-232: <<>> stands for the panic of Uniform::new(0, 0).
IndicesWithRepetition(entry_count_of_file, amount_of_file) ==
    IF entry_count_of_file = 0 THEN {None}
    ELSE {Some(SortUnstable(s)) :
             s \in UniformSamples(entry_count_of_file, amount_of_file)}

\* Mutant of IndicesWithoutRepetition: the truncated shuffle is not sorted.
IndicesWithoutRepetitionUnsorted(entry_count_of_file, amount_of_file) ==
    IF ~(entry_count_of_file >= amount_of_file) THEN {None}
    ELSE {Some(Resize(s, amount_of_file, 0)) :
             s \in Shuffles(Range(entry_count_of_file))}

\* lines 278-284: <<>> stands for the failed assertion.
IndicesWithoutRepetition(entry_count_of_file, amount_of_file) ==
    IF ~(entry_count_of_file >= amount_of_file) THEN {None}
    ELSE {Some(SortUnstable(Resize(s, amount_of_file, 0))) :
             s \in Shuffles(Range(entry_count_of_file))}

\* Mutant of IndicesConcatenate: the inclusive range 0..=entry_count.
IndicesConcatenateInclusive(entry_count_of_file) ==
    {Some(Range(entry_count_of_file + 1))}

\* line 300: the iterator 0..entry_count
IndicesConcatenate(entry_count_of_file) == {Some(Range(entry_count_of_file))}

SelectIndices ==
    /\ pc = "extract"
    /\ path_i <= NumInputs
    /\ PlannedFor(path_i) # 0
    /\ \E sel \in (IF Concatenate
                   THEN IndicesConcatenate(entry_count_per_file[path_i])
                   ELSE IF cli.allow_repetitions
                   THEN IndicesWithRepetition(entry_count_per_file[path_i],
                                              amount_per_file[path_i])
                   ELSE IndicesWithoutRepetition(entry_count_per_file[path_i],
                                                 amount_per_file[path_i])) :
        IF IsSome(sel)
        THEN /\ indices' = Unwrap(sel)
             /\ pc' = "copy_entries"
             /\ UNCHANGED err
        ELSE /\ Fail("PanicIndexSelection")
             /\ UNCHANGED indices
    /\ UNCHANGED <<cli, path_i, file_size_sum, catalogueVars, output, planVars,
                   iter_k, next_index, current_index, current_record, opens>>

ExtractDone ==
    /\ pc = "extract"
    /\ path_i > NumInputs
    /\ pc' = "flush"
    /\ UNCHANGED <<cli, err, path_i, file_size_sum, catalogueVars, output,
                   planVars, copyVars, opens>>

\* ---------------------------------------- copy_entries, lines 77-124
\* lines 83-91: open the file and read its first record.
CopyOpen ==
    /\ pc = "copy_entries"
    /\ opens' = [opens EXCEPT ![path_i] = @ + 1]
    /\ current_index' = 0
    /\ iter_k' = 0
    /\ LET first == ReaderNext(cli.input[path_i], path_i, 0) IN
        IF IsSome(first)
        THEN /\ current_record' = first
             /\ fastx_reader' = 1
             /\ pc' = "for_index"
             /\ UNCHANGED err
        ELSE /\ Fail("PanicUnwrapNone")
             /\ UNCHANGED <<current_record, fastx_reader>>
    /\ UNCHANGED <<cli, path_i, file_size_sum, entry_count, entry_count_per_file,
                   entry_count_sum, format, output, planVars, indices,
                   next_index>>

\* line 93: the iterator yields its next index.
CopyNextIndex ==
    /\ pc = "for_index"
    /\ iter_k < Len(indices)
    /\ next_index' = indices[iter_k + 1]
    /\ iter_k' = iter_k + 1
    /\ pc' = "while"
    /\ UNCHANGED <<cli, err, path_i, file_size_sum, catalogueVars, output,
                   planVars, indices, current_index, current_record, opens>>

\* Mutant of CopyAdvance: a record is read and the cursor is not advanced.
CopyAdvanceKeepsCursor ==
    /\ pc = "while"
    /\ next_index > current_index
    /\ LET record == ReaderNext(cli.input[path_i], path_i, fastx_reader) IN
        IF IsSome(record)
        THEN /\ current_record' = record
             /\ fastx_reader' = fastx_reader + 1
             /\ UNCHANGED <<pc, err>>
        ELSE /\ Fail("PanicUnwrapNone")
             /\ UNCHANGED <<current_record, fastx_reader>>
    /\ UNCHANGED <<cli, path_i, file_size_sum, entry_count, entry_count_per_file,
                   entry_count_sum, format, output, planVars, indices, iter_k,
                   next_index, current_index, opens>>

\* lines 94-100: one iteration of "while next_index > current_index".
CopyAdvance ==
    /\ pc = "while"
    /\ next_index > current_index
    /\ current_index' = current_index + 1
    /\ LET record == ReaderNext(cli.input[path_i], path_i, fastx_reader) IN
        IF IsSome(record)
        THEN /\ current_record' = record
             /\ fastx_reader' = fastx_reader + 1
             /\ UNCHANGED <<pc, err>>
        ELSE /\ Fail("PanicUnwrapNone")
             /\ UNCHANGED <<current_record, fastx_reader>>
    /\ UNCHANGED <<cli, path_i, file_size_sum, entry_count, entry_count_per_file,
                   entry_count_sum, format, output, planVars, indices, iter_k,
                   next_index, opens>>

\* lines 102-117: the record as written, under the identifier of the counter.
Written(record, counter) ==
    [format |-> IF HasQual(cli.input[record[1]]) THEN "fastq" ELSE "fasta",
     id |-> Decimal(counter),
     record |-> record]

\* Mutant of IncrementNextIndex: the counter is left as it is.
IncrementNextIndexStuck(counter) == {Some(counter)}

\* target_file.next_index += 1 (line 119)
IncrementNextIndex(counter) == AddAssignOutcomes(counter, 1)

\* lines 102-120: write the held record and count it.
CopyWrite ==
    /\ pc = "while"
    /\ ~(next_index > current_index)
    /\ LET out == Unwrap(output)
           writer == Append(out.writer,
                            Written(Unwrap(current_record), out.next_index))
       IN \E counter \in IncrementNextIndex(out.next_index) :
           IF IsSome(counter)
           THEN /\ output' = Some([writer |-> writer, next_index |-> Unwrap(counter)])
                /\ pc' = "for_index"
                /\ UNCHANGED err
           ELSE /\ output' = Some([writer |-> writer, next_index |-> out.next_index])
                /\ Fail("PanicArithmeticOverflow")
    /\ UNCHANGED <<cli, path_i, file_size_sum, catalogueVars, planVars, copyVars,
                   opens>>

\* line 123: the iterator is exhausted, copy_entries returns Ok and its locals
\* and the caller's indices go out of scope.
CopyReturn ==
    /\ pc = "for_index"
    /\ iter_k = Len(indices)
    /\ pc' = "extract"
    /\ path_i' = path_i + 1
    /\ indices' = <<>>
    /\ iter_k' = 0
    /\ next_index' = 0
    /\ current_index' = 0
    /\ current_record' = None
    /\ fastx_reader' = 0
    /\ UNCHANGED <<cli, err, file_size_sum, entry_count, entry_count_per_file,
                   entry_count_sum, format, output, planVars, opens>>

\* ------------------------------------------------ main, lines 305-311
Flush ==
    /\ pc = "flush"
    /\ pc' = "done"
    /\ UNCHANGED <<cli, err, path_i, file_size_sum, catalogueVars, output,
                   planVars, copyVars, opens>>

Next ==
    \/ ReadMetadata
    \/ MetadataDone
    \/ CountOpen
    \/ CountRecord
    \/ CountEnd
    \/ CountDone
    \/ CreateOutput
    \/ PlanInit
    \/ DrawWithRepetition
    \/ DrawWithoutRepetition
    \/ PlanDone
    \/ ExtractSkip
    \/ SelectIndices
    \/ ExtractDone
    \/ CopyOpen
    \/ CopyNextIndex
    \/ CopyAdvance
    \/ CopyWrite
    \/ CopyReturn
    \/ Flush

Spec == Init /\ [][Next]_vars

\* ============================================================= claims
Counting == pc \in {"metadata", "count", "count_read"}
Planning == pc \in {"plan_init", "plan"}
Copying == pc \in {"copy_entries", "for_index", "while"}
InCopyLoop == pc \in {"for_index", "while"}
PastPlanning == pc \in {"extract", "copy_entries", "for_index", "while", "flush", "done"}
Sampling == ~Concatenate
WithoutRepetition == Sampling /\ ~cli.allow_repetitions
\* The run ended inside draw planning.
PlanningFailed ==
    pc = "failed" /\ err \in {"WeightUpdateError", "PanicWeightedIndexNew"}
Writer == IF IsSome(output) THEN Unwrap(output).writer ELSE <<>>
IsSorted(s) == \A k \in 1..(Len(s) - 1) : s[k] <= s[k + 1]
IsDistinct(s) == \A k, l \in 1..Len(s) : k # l => s[k] # s[l]
\* The records the extraction loop took from the inputs before input number i.
RECURSIVE PlannedBefore(_)
PlannedBefore(i) == IF i <= 1 THEN 0 ELSE PlannedBefore(i - 1) + PlannedFor(i - 1)

\* C1: without repetition, draw planning fails if and only if amount exceeds
\* total_count; with amount <= total_count (amount = total_count included) it
\* completes.  Stated for the runs over at least one record.
C1_FailsIffAmountExceedsTotal ==
    (WithoutRepetition /\ TotalRecords(cli.input) >= 1) =>
        /\ PlanningFailed => Amount > TotalRecords(cli.input)
        /\ PastPlanning => Amount <= TotalRecords(cli.input)

\* C2: when planning has completed the tallies sum to amount and are 0 for an
\* input without records; without repetition, after every draw each tally is at
\* most the input's count and remaining + tally = count.
C2_PlanInvariants ==
    /\ (Sampling /\ PastPlanning) =>
          /\ SumSeq(amount_per_file) = Amount
          /\ \A i \in 1..NumInputs :
                entry_count_per_file[i] = 0 => amount_per_file[i] = 0
    /\ (WithoutRepetition /\ (pc = "plan" \/ PastPlanning \/ pc = "failed")) =>
          \A i \in DOMAIN remaining_entries_per_file :
              /\ amount_per_file[i] <= entry_count_per_file[i]
              /\ remaining_entries_per_file[i] + amount_per_file[i]
                     = entry_count_per_file[i]

C2_Witness ==
    /\ WithoutRepetition
    /\ pc = "done"
    /\ NumInputs = 2
    /\ Amount = 3
    /\ amount_per_file = <<1, 2>>
    /\ remaining_entries_per_file = <<2, 0>>

\* The indices written so far by the running copy_entries.
WrittenInCopy == IF pc = "while" THEN iter_k - 1 ELSE iter_k
\* The index last written by the running copy (the cursor's start before any).
LastWritten == IF WrittenInCopy = 0 THEN 0 ELSE indices[WrittenInCopy]
C3_CopyState ==
    InCopyLoop =>
        /\ Len(Writer) = PlannedBefore(path_i) + WrittenInCopy
        /\ \A m \in 1..WrittenInCopy :
              Writer[PlannedBefore(path_i) + m].record = <<path_i, indices[m]>>
        /\ fastx_reader = current_index + 1
        /\ current_record = Some(<<path_i, current_index>>)
        /\ pc = "for_index" => current_index = LastWritten
        /\ pc = "while" =>
              /\ next_index = indices[iter_k]
              /\ LastWritten <= current_index
              /\ current_index <= next_index
        /\ opens[path_i] = 2
C3_CursorForward ==
    (InCopyLoop /\ pc' \in {"for_index", "while"}) =>
        /\ current_index' >= current_index
        /\ fastx_reader' >= fastx_reader
        /\ opens' = opens
\* C3: copy_entries emits the records at the requested indices, in the order
\* requested; the reader has read exactly the records up to the cursor (none is
\* read for a repeated index), the held record is the one at the cursor, the
\* file was opened once for the copy, and the cursor never moves back.
C3_CopyEntries == []C3_CopyState /\ [][C3_CursorForward]_vars

C3_Witness ==
    /\ pc = "for_index"
    /\ indices = <<0, 2, 2>>
    /\ iter_k = 3
    /\ fastx_reader = 3

\* str::parse of an identifier, and the form format! gives a number.
RECURSIVE ParseDecimal(_)
ParseDecimal(d) ==
    IF Len(d) = 1 THEN d[1]
    ELSE 10 * ParseDecimal(SubSeq(d, 1, Len(d) - 1)) + d[Len(d)]
IsCanonicalDecimal(d) ==
    /\ Len(d) >= 1
    /\ \A k \in 1..Len(d) : d[k] \in 0..9
    /\ Len(d) > 1 => d[1] # 0
RECURSIVE AllRecords(_, _)
AllRecords(input, n) ==
    IF n = 0 THEN <<>>
    ELSE AllRecords(input, n - 1) \o [k \in 1..input[n].len |-> <<n, k - 1>>]
\* C4: the identifiers written are 0, 1, 2, ... in emission order in every mode,
\* the counter running across the inputs; a finished concatenation has written
\* every record of every input, inputs in order and records in file order.
C4_DenseIdentifiers ==
    IsSome(output) =>
        /\ \A k \in 1..Len(Writer) :
              /\ IsCanonicalDecimal(Writer[k].id)
              /\ ParseDecimal(Writer[k].id) = k - 1
        /\ Unwrap(output).next_index = Len(Writer)
        /\ (Concatenate /\ pc = "done") =>
              /\ Len(Writer) = TotalRecords(cli.input)
              /\ [k \in 1..Len(Writer) |-> Writer[k].record]
                     = AllRecords(cli.input, NumInputs)

C4_Witness ==
    /\ pc = "done"
    /\ Concatenate
    /\ NumInputs = 2
    /\ cli.input[1].len = 2
    /\ cli.input[2].len = 3
    /\ Writer[5].id = <<4>>

\* C5: for an input with amount_per_file > 0 the index sequence handed to
\* copy_entries has amount_per_file values, all below the input's count, sorted
\* ascending, and without repetition pairwise distinct.
C5_IndexSequence ==
    (Sampling /\ pc = "copy_entries") =>
        /\ amount_per_file[path_i] > 0
        /\ Len(indices) = amount_per_file[path_i]
        /\ \A k \in 1..Len(indices) :
              indices[k] \in 0..(entry_count_per_file[path_i] - 1)
        /\ IsSorted(indices)
        /\ WithoutRepetition => IsDistinct(indices)

C5_Witness ==
    /\ WithoutRepetition
    /\ pc = "copy_entries"
    /\ entry_count_per_file[path_i] = 3
    /\ indices = <<0, 2>>

\* C6: nothing is planned before every input is counted, nothing is written
\* before the plan is complete, a run that fails in planning has written nothing,
\* and the inputs are extracted one at a time in input order.
C6_PhasesInOrder ==
    /\ Counting => (output = None /\ amount_per_file = <<>> /\ draws = 0)
    /\ (Planning \/ PlanningFailed \/ PastPlanning) =>
          Len(entry_count_per_file) = NumInputs
    /\ (Planning \/ PlanningFailed) => Writer = <<>>
    /\ (Sampling /\ Writer # <<>>) => draws = Amount
    /\ \A k \in 1..(Len(Writer) - 1) : Writer[k].record[1] <= Writer[k + 1].record[1]
    /\ \A k \in 1..Len(Writer) :
          Writer[k].record[1] <= path_i /\ (Writer[k].record[1] = path_i => Copying)

C6_Witness ==
    /\ PlanningFailed
    /\ WithoutRepetition
    /\ NumInputs = 2
    /\ TotalRecords(cli.input) = 2
    /\ Amount = 3
    /\ Writer = <<>>

\* C7 as stated: each input is opened at most twice in the sampling modes and
\* exactly once in concatenation mode.
C7_OpenedOnceWhenConcatenating ==
    \A i \in 1..NumInputs :
        /\ opens[i] <= 2
        /\ (Concatenate /\ pc = "done") => opens[i] = 1

\* The extraction loop has reached input number i and opened it if it takes any.
ExtractionStarted(i) ==
    \/ pc \in {"flush", "done"}
    \/ pc = "extract" /\ path_i > i
    \/ InCopyLoop /\ path_i >= i
    \/ pc = "copy_entries" /\ path_i > i
\* C7 as amended: in every mode an input is opened once to count and at most
\* once more, to extract, and only if something is taken from it; a finished
\* concatenation has opened every input with records twice and every input
\* without records once.
C7_OpenedAtMostTwice ==
    \A i \in 1..NumInputs :
        /\ opens[i] <= 2
        /\ opens[i] = 2 => (cli.input[i].len > 0 /\ PlannedFor(i) > 0)
        /\ (pc # "failed" /\ ExtractionStarted(i)) =>
              opens[i] = IF PlannedFor(i) > 0 THEN 2 ELSE 1
        /\ (Concatenate /\ pc = "done") =>
              opens[i] = IF cli.input[i].len > 0 THEN 2 ELSE 1

C7_Witness ==
    /\ pc = "done"
    /\ Concatenate
    /\ NumInputs = 2
    /\ opens = <<2, 1>>

\* C8: when a per-file count or the running sum of the counts exceeds the
\* counter's capacity the counting pass fails (it neither wraps nor goes on).
C8_OverflowFails ==
    (SumSeq(entry_count_per_file) > CounterMax \/ entry_count_sum > CounterMax) =>
        (pc = "failed" /\ err \in {"Overflow", "PanicArithmeticOverflow"})

\* The format of the first of the inputs 1..n that has records.
RECURSIVE FirstFormat(_, _)
FirstFormat(input, n) ==
    IF n = 0 THEN None
    ELSE IF IsSome(FirstFormat(input, n - 1)) THEN FirstFormat(input, n - 1)
    ELSE ReaderFormat(input[n])
Agrees(input, n, i) ==
    IsSome(ReaderFormat(input[i])) => ReaderFormat(input[i]) = FirstFormat(input, n)
\* The files that went through the format comparison of lines 169-177.
Compared ==
    IF pc = "failed" /\ err \in {"FormatMismatch", "PanicArithmeticOverflow"}
    THEN Len(entry_count_per_file) - 1
    ELSE Len(entry_count_per_file)
\* C9: the counting pass fails with a format mismatch exactly when a file
\* reports a format other than that of the first file that reported one; files
\* without records neither set nor contradict the expected format, and the
\* expected format, once set, does not change.
C9_FormatMismatch ==
    (Counting \/ pc \in {"create_output", "failed"}) =>
        /\ format = FirstFormat(cli.input, Compared)
        /\ \A i \in 1..Compared : Agrees(cli.input, Compared, i)
        /\ err = "FormatMismatch" <=>
              /\ pc = "failed"
              /\ Len(entry_count_per_file) = Compared + 1
              /\ entry_count_sum = SumSeq(entry_count_per_file) % (CounterMax + 1)
              /\ ~Agrees(cli.input, Compared, Compared + 1)

C9_Witness ==
    /\ err = "FormatMismatch"
    /\ NumInputs = 3
    /\ Compared = 2
    /\ cli.input[1].len = 0

\* C10: copy_entries is only called for an input with at least one counted
\* record and with every index below its count, so the reader is never asked for
\* a record after the last and no unwrap meets None; an input with no records or
\* no draws is not opened for extraction.
C10_NoReadPastEnd ==
    /\ err # "PanicUnwrapNone"
    /\ err # "PanicIndexSelection"
    /\ Copying =>
          /\ entry_count_per_file[path_i] >= 1
          /\ entry_count_per_file[path_i] = cli.input[path_i].len
          /\ PlannedFor(path_i) > 0
          /\ \A k \in 1..Len(indices) : indices[k] < entry_count_per_file[path_i]
          /\ fastx_reader <= cli.input[path_i].len
    /\ \A i \in 1..NumInputs :
          (PastPlanning /\ PlannedFor(i) = 0) => opens[i] <= 1

C10_Witness ==
    /\ pc = "for_index"
    /\ iter_k = Len(indices)
    /\ fastx_reader = cli.input[path_i].len
    /\ cli.input[path_i].len = 3
    /\ NumInputs = 2
    /\ path_i = 2
    /\ cli.input[1].len = 0
====
